---- MODULE Spec2Model ----
(***************************************************************************)
(* Desktop_mini_game as state machines, one action per Qt callback:       *)
(*   Spec, SpecClose          the brick breaker window (Games/Brick_game.py)*)
(*   SpecLauncher, FairLauncher   the launcher (Game_launcher.py)          *)
(*   SpecMemory               the memory game (Games/Memory_game.py)       *)
(*   SpecClick                the click speed game (Games/Click_game.py)   *)
(* Each specification moves the variables of its own window and leaves    *)
(* the others as constructed.                                              *)
(*                                                                         *)
(* Numbers.  Paddle and brick coordinates are Python ints (pixels).  The   *)
(* ball's coordinates and speeds become Python floats after the first      *)
(* paddle bounce; the model keeps them in fixed point, Scale units to the  *)
(* pixel, and rounds the one division of the program (the hit position on  *)
(* the paddle) down to that resolution.                                    *)
(***************************************************************************)
EXTENDS Integers, Sequences, FiniteSets

VARIABLES
    paddle,         \* Paddle: [x, y, width, height, speed], pixels
    ball,           \* Ball: [x, y, radius, speed_x, speed_y, speed_multiplier], fixed point
    ball_attached,  \* BrickBreakerGame.ball_attached
    bricks,         \* BrickBreakerGame.bricks, in layout order
    score,          \* BrickBreakerGame.score
    lives,          \* BrickBreakerGame.lives
    game_active,    \* BrickBreakerGame.game_active
    game_started,   \* BrickBreakerGame.game_started (start_button is hidden once set)
    keys_pressed,   \* BrickBreakerGame.keys_pressed
    timer_active,   \* game_timer.isActive()
    emitted,        \* payloads of game_ended emitted so far, oldest first
    inputs,         \* number of key and mouse-move events delivered so far
    window_open,    \* BrickBreakerGame.isVisible(): shown and not yet closed
    \* GameLauncher (src/src/Game_launcher.py)
    launcher_status,   \* "created", "running", "failed" (the constructor raised) or "closed"
    settings_file,     \* data/settings.json: [state, content]
    startup_file,      \* settings_file as the constructor found it
    settings,          \* GameLauncher.settings, a dict
    active_game,       \* GameLauncher.active_game: an index of games, 0 for None
    games,             \* the game windows created so far: [name, open, ended]
    launcher_visible,  \* GameLauncher.isVisible()
    fade_animation,    \* GameLauncher.fade_animation: [state, endValue]
    hide_connected,    \* fade_animation.finished is connected to GameLauncher.hide
    pending,           \* QTimer.singleShot callbacks of the launcher that have not fired
    reported,          \* the game_ended events received so far: <<name, payload>>
    saves,             \* number of save_settings calls so far
    \* MemoryMatchGame (src/src/Games/Memory_game.py)
    memory,            \* the fields of MemoryMatchGame; first_card, second_card: an index of cards, 0 for None
    cards,             \* MemoryMatchGame.cards: [pair_id, is_flipped, is_matched, is_animating]
    memory_pending,    \* QTimer.singleShot callbacks of the memory game that have not fired
    memory_emitted,    \* payloads of the memory game's game_ended so far, oldest first
    completed,         \* the value of moves whenever the last pair of a session was matched
    restarts,          \* number of restart_game calls so far
    \* ClickSpeedGame (src/src/Games/Click_game.py)
    click,             \* the fields of ClickSpeedGame and isActive() of its three timers
    click_emitted,     \* payloads of the click game's game_ended so far, oldest first
    circles            \* number of spawn_circle calls so far

brickVars == <<paddle, ball, ball_attached, bricks, score, lives, game_active,
               game_started, keys_pressed, timer_active, emitted, inputs, window_open>>

launcherVars == <<launcher_status, settings_file, startup_file, settings, active_game,
                  games, launcher_visible, fade_animation, hide_connected, pending,
                  reported, saves>>

memoryVars == <<memory, cards, memory_pending, memory_emitted, completed, restarts>>

clickVars == <<click, click_emitted, circles>>

\* the state outside the brick breaker window, the launcher, the memory
\* game, the click game
outsideBrick == <<launcherVars, memoryVars, clickVars>>
outsideLauncher == <<brickVars, memoryVars, clickVars>>
outsideMemory == <<brickVars, launcherVars, clickVars>>
outsideClick == <<brickVars, launcherVars, memoryVars>>

vars == <<brickVars, launcherVars, memoryVars, clickVars>>

----------------------------------------------------------------------------
(* Bounds of the model *)

\* QApplication.primaryScreen().geometry(): the window is as large as the screen
ScreenWidth == 200
ScreenHeight == 260
\* fixed-point units per pixel for the ball's coordinates and speeds
Scale == 12
\* key and mouse-move events per run
MaxInputs == 1

\* pointer x-coordinates delivered by mouseMoveEvent
MouseXs == {0}

\* launch-button clicks per run of the launcher
MaxLaunches == 2
\* MemoryMatchGame.card_icons: the first two of the program's eight icons
card_icons == <<"A", "B">>
\* pair selections per run of the memory game
MaxMoves == 2
\* restart_button clicks per run of the memory game
MaxRestarts == 1
\* scoring clicks per run of the click game
MaxClicks == 2

\* payloads of game_ended (a score or a move count)
Scores == {0, 1, 2}
\* the best scores of a settings file: an entry that is present lies between
\* the payloads
StoredEntries ==
    {[name \in D |-> 1] : D \in {{}, {"brick_game"}, {"click_game", "brick_game", "memory_game"}}}

\* pointer positions delivered to the click game's mousePressEvent: the
\* middle of the area in which circles appear, and the window's corner
ClickPoints == {<<ScreenWidth \div 2, ScreenHeight \div 2 + 30>>, <<0, 0>>}

Keys == {"Key_Left", "Key_Right", "Key_Space"}
Buttons == {"LeftButton", "RightButton"}

----------------------------------------------------------------------------
(* Program constants *)

PaddleWidth == 120
PaddleHeight == 20
PaddleSpeed == 15
PaddleBottomGap == 100
BallRadius == 10
BallStartGap == 150
BallSpeed == 5
AttachMargin == 5
BrickWidth == 80
BrickHeight == 30
BrickSpacing == 5
BrickStartX == 50
BrickStartY == 100
BrickRows == 6
SingleHitRows == 4
SideMargins == 100
StartLives == 3
DestroyPoints == 10
HitPoints == 5
\* Game_launcher.py
ScoreDefault == 0
MemoryDefault == 999

Max(a, b) == IF a >= b THEN a ELSE b
Min(a, b) == IF a <= b THEN a ELSE b
Abs(a) == IF a >= 0 THEN a ELSE -a

----------------------------------------------------------------------------
(* Paddle *)

NewPaddle(x, y, w, h) == [x |-> x, y |-> y, width |-> w, height |-> h, speed |-> PaddleSpeed]

move_left(p, screen_width) == [p EXCEPT !.x = Max(0, p.x - p.speed)]

move_rightUnclamped(p, screen_width) == [p EXCEPT !.x = p.x + p.speed]
move_right(p, screen_width) == [p EXCEPT !.x = Min(screen_width - p.width, p.x + p.speed)]

\* QRectF(x, y, width, height), in fixed-point units
Rect(l, t, w, h) == [l |-> l, t |-> t, w |-> w, h |-> h]

PaddleRect(p) == Rect(p.x * Scale, p.y * Scale, p.width * Scale, p.height * Scale)

\* QRectF.intersects: false for an empty rectangle and for rectangles that only touch
Intersects(a, b) ==
    /\ a.w # 0 /\ a.h # 0 /\ b.w # 0 /\ b.h # 0
    /\ ~(a.l >= b.l + b.w \/ b.l >= a.l + a.w)
    /\ ~(a.t >= b.t + b.h \/ b.t >= a.t + a.h)

CenterX(r) == r.l + r.w \div 2
CenterY(r) == r.t + r.h \div 2

----------------------------------------------------------------------------
(* Ball *)

NewBall(x, y, radius) ==
    [x |-> x * Scale, y |-> y * Scale, radius |-> radius,
     speed_x |-> BallSpeed * Scale, speed_y |-> -BallSpeed * Scale,
     speed_multiplier |-> 1]

move(b) == [b EXCEPT !.x = @ + b.speed_x * b.speed_multiplier,
                     !.y = @ + b.speed_y * b.speed_multiplier]

bounce_x(b) == [b EXCEPT !.speed_x = -b.speed_x]
bounce_y(b) == [b EXCEPT !.speed_y = -b.speed_y]

BallRect(b) == Rect(b.x - b.radius * Scale, b.y - b.radius * Scale,
                    b.radius * 2 * Scale, b.radius * 2 * Scale)

----------------------------------------------------------------------------
(* Brick *)

NewBrick(x, y, w, h, hits) ==
    [x |-> x, y |-> y, width |-> w, height |-> h,
     hits |-> hits, max_hits |-> hits, destroyed |-> FALSE]

\* Brick.hit: the brick after the hit; the return value is its destroyed flag
hit(brick) == [brick EXCEPT !.hits = brick.hits - 1,
                            !.destroyed = IF brick.hits - 1 <= 0 THEN TRUE ELSE brick.destroyed]

BrickRect(brick) == Rect(brick.x * Scale, brick.y * Scale,
                         brick.width * Scale, brick.height * Scale)

BrickCols == (ScreenWidth - SideMargins) \div (BrickWidth + BrickSpacing)

\* create_bricks: row by row, BrickCols bricks to the row
create_bricks ==
    [i \in 1..(BrickRows * BrickCols) |->
        LET row == (i - 1) \div BrickCols
            col == (i - 1) % BrickCols
        IN  NewBrick(BrickStartX + col * (BrickWidth + BrickSpacing),
                     BrickStartY + row * (BrickHeight + BrickSpacing),
                     BrickWidth, BrickHeight,
                     IF row < SingleHitRows THEN 1 ELSE 2)]

----------------------------------------------------------------------------
(* BrickBreakerGame: construction *)

setup_game_variables ==
    /\ score = 0
    /\ lives = StartLives
    /\ game_active = FALSE
    /\ game_started = FALSE
    /\ paddle = NewPaddle(ScreenWidth \div 2 - PaddleWidth \div 2,
                          ScreenHeight - PaddleBottomGap, PaddleWidth, PaddleHeight)
    /\ ball = NewBall(ScreenWidth \div 2, ScreenHeight - BallStartGap, BallRadius)
    /\ ball_attached = TRUE
    /\ bricks = create_bricks
    /\ keys_pressed = {}
    /\ timer_active = FALSE
    /\ emitted = << >>
    /\ inputs = 0
    /\ window_open = TRUE

----------------------------------------------------------------------------
(* BrickBreakerGame: game_loop, one operator per step.  A step maps the    *)
(* fields of self (and the local ball_rect) before it to those after it.   *)

Self ==
    [paddle |-> paddle, ball |-> ball, ball_attached |-> ball_attached,
     bricks |-> bricks, score |-> score, lives |-> lives,
     game_active |-> game_active, timer_active |-> timer_active,
     emitted |-> emitted, ball_rect |-> BallRect(ball)]

\* "Handle key movements": Left is applied before Right
KeyStep(s, keys) ==
    LET p1 == IF "Key_Left" \in keys THEN move_left(s.paddle, ScreenWidth) ELSE s.paddle
        p2 == IF "Key_Right" \in keys THEN move_right(p1, ScreenWidth) ELSE p1
    IN  [s EXCEPT !.paddle = p2]

\* self.ball.move()
MoveStep(s) == [s EXCEPT !.ball = move(s.ball)]

\* "Ball collision with walls"
WallStepClamp(s) ==
    LET b  == s.ball
        b1 == IF b.x - b.radius * Scale <= 0
              THEN [bounce_x(b) EXCEPT !.x = b.radius * Scale]
              ELSE IF b.x + b.radius * Scale >= ScreenWidth * Scale
                   THEN [bounce_x(b) EXCEPT !.x = (ScreenWidth - b.radius) * Scale]
                   ELSE b
        b2 == IF b1.y - b1.radius * Scale <= 0
              THEN [bounce_y(b1) EXCEPT !.y = b1.radius * Scale]
              ELSE b1
    IN  [s EXCEPT !.ball = b2]
WallStep(s) ==
    LET b  == s.ball
        b1 == IF \/ b.x - b.radius * Scale <= 0
                 \/ b.x + b.radius * Scale >= ScreenWidth * Scale
              THEN bounce_x(b) ELSE b
        b2 == IF b1.y - b1.radius * Scale <= 0 THEN bounce_y(b1) ELSE b1
    IN  [s EXCEPT !.ball = b2]

\* (hit_pos - 0.5) * 10 with hit_pos = (ball.x - paddle.x) / paddle.width
HitSpeed(b, p) == ((b.x - p.x * Scale) * 10) \div p.width - 5 * Scale

\* "Ball collision with paddle"; ball_rect is taken here and used again for the bricks
PaddleStepAnyDirection(s) ==
    LET r == BallRect(s.ball) IN
    IF Intersects(r, PaddleRect(s.paddle))
    THEN [s EXCEPT !.ball_rect = r,
                   !.ball = [bounce_y(s.ball) EXCEPT !.speed_x = HitSpeed(s.ball, s.paddle)]]
    ELSE [s EXCEPT !.ball_rect = r]
PaddleStep(s) ==
    LET r == BallRect(s.ball) IN
    IF Intersects(r, PaddleRect(s.paddle)) /\ s.ball.speed_y > 0
    THEN [s EXCEPT !.ball_rect = r,
                   !.ball = [bounce_y(s.ball) EXCEPT !.speed_x = HitSpeed(s.ball, s.paddle)]]
    ELSE [s EXCEPT !.ball_rect = r]

\* the score of one brick hit, by the return value of Brick.hit
AwardFlat(was_destroyed) == DestroyPoints
AwardPenalty(was_destroyed) == IF was_destroyed THEN DestroyPoints ELSE -HitPoints
Award(was_destroyed) == IF was_destroyed THEN DestroyPoints ELSE HitPoints

\* the bounce of a brick hit: by the larger offset between the two centres
BrickBounceAlwaysY(b, brick) == bounce_y(b)
BrickBounce(b, brick) ==
    IF Abs(b.x - CenterX(BrickRect(brick))) > Abs(b.y - CenterY(BrickRect(brick)))
    THEN bounce_x(b) ELSE bounce_y(b)

\* the test of the brick loop
CollidesDestroyedToo(brick, ball_rect) == Intersects(ball_rect, BrickRect(brick))
Collides(brick, ball_rect) == ~brick.destroyed /\ Intersects(ball_rect, BrickRect(brick))

\* the body of the brick loop for a colliding brick i
HitBrick(s, i) ==
    [s EXCEPT !.bricks[i] = hit(s.bricks[i]),
              !.score = s.score + Award(hit(s.bricks[i]).hits <= 0),
              !.ball = BrickBounce(s.ball, s.bricks[i])]

\* "Ball collision with bricks": the for loop from brick i on
RECURSIVE BrickLoopNoBreak(_, _)
BrickLoopNoBreak(s, i) ==
    IF i > Len(s.bricks) THEN s
    ELSE IF Collides(s.bricks[i], s.ball_rect)
         THEN BrickLoopNoBreak(HitBrick(s, i), i + 1)
         ELSE BrickLoopNoBreak(s, i + 1)

RECURSIVE BrickLoop(_, _)
BrickLoop(s, i) ==
    IF i > Len(s.bricks) THEN s
    ELSE IF Collides(s.bricks[i], s.ball_rect)
         THEN HitBrick(s, i)      \* break
         ELSE BrickLoop(s, i + 1)

BrickStep(s) == BrickLoop(s, 1)

\* reset_ball
reset_ballKeepSpeed(s) ==
    [s EXCEPT !.ball.x = (s.paddle.x + s.paddle.width \div 2) * Scale,
              !.ball.y = (s.paddle.y - s.ball.radius - AttachMargin) * Scale,
              !.ball_attached = TRUE]
reset_ball(s) ==
    [s EXCEPT !.ball.x = (s.paddle.x + s.paddle.width \div 2) * Scale,
              !.ball.y = (s.paddle.y - s.ball.radius - AttachMargin) * Scale,
              !.ball.speed_x = BallSpeed * Scale,
              !.ball.speed_y = -BallSpeed * Scale,
              !.ball_attached = TRUE]

\* end_game: stops the session and the timer and emits game_ended(score);
\* won only selects the text of the label
end_game(s, won) ==
    [s EXCEPT !.game_active = FALSE,
              !.timer_active = FALSE,
              !.emitted = Append(s.emitted, s.score)]

\* "Ball fell off screen"
BottomStepLate(s) ==
    IF s.ball.y - s.ball.radius * Scale > ScreenHeight * Scale
    THEN LET s1 == [s EXCEPT !.lives = s.lives - 1]
         IN  IF s1.lives < 0 THEN end_game(s1, FALSE) ELSE reset_ball(s1)
    ELSE s
BottomStep(s) ==
    IF s.ball.y - s.ball.radius * Scale > ScreenHeight * Scale
    THEN LET s1 == [s EXCEPT !.lives = s.lives - 1]
         IN  IF s1.lives <= 0 THEN end_game(s1, FALSE) ELSE reset_ball(s1)
    ELSE s

\* "Check win condition"
WinStep(s) ==
    IF \A i \in DOMAIN s.bricks : s.bricks[i].destroyed
    THEN end_game(s, TRUE)
    ELSE s

\* the steps after the paddle collision, in the order of game_loop
BricksAfterWinCheck(s) == BottomStep(BrickStep(WinStep(s)))
ResolveStep(s) == WinStep(BottomStep(BrickStep(s)))

\* "Ball attached to paddle"
FollowStep(s) ==
    [s EXCEPT !.ball.x = (s.paddle.x + s.paddle.width \div 2) * Scale,
              !.ball.y = (s.paddle.y - s.ball.radius - AttachMargin) * Scale]

\* game_loop: the fields of self after one call
GameLoopNoGuard(s, keys) ==
    LET s1 == KeyStep(s, keys)
    IN  IF ~s1.ball_attached
        THEN ResolveStep(PaddleStep(WallStep(MoveStep(s1))))
        ELSE FollowStep(s1)
GameLoop(s, keys) ==
    IF ~s.game_active THEN s
    ELSE LET s1 == KeyStep(s, keys)
         IN  IF ~s1.ball_attached
             THEN ResolveStep(PaddleStep(WallStep(MoveStep(s1))))
             ELSE FollowStep(s1)

----------------------------------------------------------------------------
(* BrickBreakerGame: callbacks *)

\* start_button.clicked; the button is hidden for good by the first click
start_game ==
    /\ window_open
    /\ ~game_started
    /\ game_active' = TRUE
    /\ game_started' = TRUE
    /\ score' = 0
    /\ lives' = StartLives
    /\ timer_active' = TRUE
    /\ UNCHANGED <<paddle, ball, ball_attached, bricks, keys_pressed, emitted, inputs,
                   window_open>>
    /\ UNCHANGED outsideBrick

\* game_timer.timeout
game_loop ==
    /\ timer_active
    /\ LET s2 == GameLoop(Self, keys_pressed)
       IN  /\ paddle' = s2.paddle
           /\ ball' = s2.ball
           /\ ball_attached' = s2.ball_attached
           /\ bricks' = s2.bricks
           /\ score' = s2.score
           /\ lives' = s2.lives
           /\ game_active' = s2.game_active
           /\ timer_active' = s2.timer_active
           /\ emitted' = s2.emitted
    /\ UNCHANGED <<game_started, keys_pressed, inputs, window_open>>
    /\ UNCHANGED outsideBrick

keyPressEventAnyKey(key) ==
    /\ window_open
    /\ inputs < MaxInputs
    /\ inputs' = inputs + 1
    /\ keys_pressed' = keys_pressed \cup {key}
    /\ ball_attached' = FALSE
    /\ UNCHANGED <<paddle, ball, bricks, score, lives, game_active, game_started,
                   timer_active, emitted, window_open>>
    /\ UNCHANGED outsideBrick
keyPressEvent(key) ==
    /\ window_open
    /\ inputs < MaxInputs
    /\ inputs' = inputs + 1
    /\ keys_pressed' = keys_pressed \cup {key}
    /\ ball_attached' = IF key = "Key_Space" /\ ball_attached THEN FALSE ELSE ball_attached
    /\ UNCHANGED <<paddle, ball, bricks, score, lives, game_active, game_started,
                   timer_active, emitted, window_open>>
    /\ UNCHANGED outsideBrick

keyReleaseEvent(key) ==
    /\ window_open
    /\ inputs < MaxInputs
    /\ inputs' = inputs + 1
    /\ keys_pressed' = keys_pressed \ {key}
    /\ UNCHANGED <<paddle, ball, ball_attached, bricks, score, lives, game_active,
                   game_started, timer_active, emitted, window_open>>
    /\ UNCHANGED outsideBrick

mouseMoveEvent(mouse_x) ==
    /\ window_open
    /\ inputs < MaxInputs
    /\ inputs' = inputs + 1
    /\ paddle' = IF game_active
                 THEN [paddle EXCEPT !.x = Max(0, Min(ScreenWidth - paddle.width,
                                                      mouse_x - paddle.width \div 2))]
                 ELSE paddle
    /\ UNCHANGED <<ball, ball_attached, bricks, score, lives, game_active, game_started,
                   keys_pressed, timer_active, emitted, window_open>>
    /\ UNCHANGED outsideBrick

mousePressEvent(button) ==
    /\ window_open
    /\ ball_attached' = IF button = "LeftButton" /\ ball_attached THEN FALSE ELSE ball_attached
    /\ UNCHANGED <<paddle, ball, bricks, score, lives, game_active, game_started,
                   keys_pressed, timer_active, emitted, inputs,
                   window_open>>
    /\ UNCHANGED outsideBrick

----------------------------------------------------------------------------
(* GameLauncher: construction *)

GameNames == {"click_game", "brick_game", "memory_game"}

\* dict.get(key, default)
Get(dict, key, default) == IF key \in DOMAIN dict THEN dict[key] ELSE default

\* the fallback of the best score of a game
DefaultOf(name) == IF name = "memory_game" THEN MemoryDefault ELSE ScoreDefault

\* the settings of load_settings when the file cannot be used
DefaultSettings == [k \in {"high_scores"} |-> [name \in GameNames |-> DefaultOf(name)]]

\* data/settings.json
AbsentFile == [state |-> "absent", content |-> DefaultSettings]
File(state, content) == [state |-> state, content |-> content]

\* the launcher object before its constructor has run
GameLauncher(file) ==
    /\ launcher_status = "created"
    /\ settings_file = file
    /\ startup_file = file
    /\ settings = DefaultSettings
    /\ active_game = 0
    /\ games = << >>
    /\ launcher_visible = FALSE
    /\ fade_animation = [state |-> "Stopped", endValue |-> 1]
    /\ hide_connected = FALSE
    /\ pending = << >>
    /\ reported = << >>
    /\ saves = 0

----------------------------------------------------------------------------
(* MemoryMatchGame: construction *)

\* QTimer.singleShot: the callback, and the session (the number of restarts
\* so far) in which it was scheduled
singleShot(callback, session) == [callback |-> callback, session |-> session]

\* setup_game_variables and restart_game: the fields of a fresh session
NewSession ==
    [moves |-> 0, matched_pairs |-> 0, game_started |-> FALSE, game_completed |-> FALSE,
     first_card |-> 0, second_card |-> 0, can_flip |-> TRUE, is_checking |-> FALSE,
     visible |-> TRUE, crashed |-> FALSE]

\* __init__: the cards are created by a 100 ms single shot
MemoryMatchGame ==
    /\ memory = NewSession
    /\ cards = << >>
    /\ memory_pending = <<singleShot("setup_cards", 0)>>
    /\ memory_emitted = << >>
    /\ completed = << >>
    /\ restarts = 0

----------------------------------------------------------------------------
(* The brick breaker window on its own *)

----------------------------------------------------------------------------
(* ClickSpeedGame: construction.  circle_opacity is kept in tenths; the     *)
(* rounding of its 0.1 float steps, which changes only the number of        *)
(* animation frames, is left out.                                           *)

initial_radius == 75
min_radius == 20
radius_decrease == 3
time_limit == 2000
\* the period of display_timer, ms
DisplayPeriod == 100
\* circle_opacity 1.0, in tenths
Opaque == 10

\* current_circle is None
None == [x |-> 0, y |-> 0, radius |-> 0]

\* ClickSpeedGame.__init__; fade_direction and remaining_time do not exist
\* before the first spawn_circle (0 here), start_button is shown
ClickSpeedGame ==
    /\ click = [score |-> 0, game_active |-> FALSE, current_circle |-> None,
                circle_opacity |-> Opaque, fade_direction |-> 0, remaining_time |-> 0,
                game_timer |-> FALSE, animation_timer |-> FALSE, display_timer |-> FALSE,
                start_button |-> TRUE]
    /\ click_emitted = << >>
    /\ circles = 0

Init ==
    setup_game_variables /\ GameLauncher(AbsentFile) /\ MemoryMatchGame /\ ClickSpeedGame

Next ==
    \/ start_game
    \/ game_loop
    \/ \E key \in Keys : keyPressEvent(key)
    \/ \E key \in Keys : keyReleaseEvent(key)
    \/ \E mouse_x \in MouseXs : mouseMoveEvent(mouse_x)
    \/ \E button \in Buttons : mousePressEvent(button)

Spec == Init /\ [][Next]_vars

\* close_button.clicked, return_menu_button.clicked and the launcher's
\* active_game.close(): QWidget.close() hides the window; the class has no
\* closeEvent, and nothing else runs
close ==
    /\ window_open
    /\ window_open' = FALSE
    /\ UNCHANGED <<paddle, ball, ball_attached, bricks, score, lives, game_active,
                   game_started, keys_pressed, timer_active, emitted, inputs>>
    /\ UNCHANGED outsideBrick

\* the session with the window closed at any moment
NextClose == Next \/ close

SpecClose == Init /\ [][NextClose]_vars

----------------------------------------------------------------------------
(* GameLauncher: methods and callbacks *)

\* the contents of a well-formed settings file: an object without
\* "high_scores", or with it and none, one or all of its three entries
SettingsContents ==
    {[k \in {} |-> 0]} \cup
    {[k \in {"high_scores"} |-> entries] : entries \in StoredEntries}

\* the states of data/settings.json at startup (content is read only of a
\* well-formed file)
SettingsFiles ==
    {File(state, DefaultSettings) : state \in {"absent", "unreadable", "malformed"}}
    \cup {File("json", content) : content \in SettingsContents}

\* load_settings: self.settings
load_settings(file) == IF file.state = "json" THEN file.content ELSE DefaultSettings

\* save_settings: the file afterwards; a failure to write is swallowed
save_settings(file, dict) == IF file.state = "unreadable" THEN file ELSE File("json", dict)

\* dict[key] = value
Put(dict, key, value) ==
    [k \in DOMAIN dict \cup {key} |-> IF k = key THEN value ELSE dict[k]]

Remove(seq, i) == [j \in 1..(Len(seq) - 1) |-> IF j < i THEN seq[j] ELSE seq[j + 1]]

ShowCallback(name) ==
    CASE name = "click_game" -> "_show_click_game"
      [] name = "brick_game" -> "_show_brick_game"
      [] name = "memory_game" -> "_show_memory_game"

\* GameLauncher.__init__ and main: load_settings, then setup_ui, whose
\* update_score_display reads settings["high_scores"]; then launcher.show()
launcher_init ==
    /\ launcher_status = "created"
    /\ LET dict == load_settings(settings_file)
           created == settings_file.state = "absent"
       IN  /\ settings' = dict
           /\ settings_file' = IF created THEN save_settings(settings_file, dict)
                                ELSE settings_file
           /\ saves' = IF created THEN saves + 1 ELSE saves
           /\ launcher_status' = IF "high_scores" \in DOMAIN dict THEN "running" ELSE "failed"
           /\ launcher_visible' = ("high_scores" \in DOMAIN dict)
    /\ UNCHANGED <<startup_file, active_game, games, fade_animation, hide_connected,
                   pending, reported>>
    /\ UNCHANGED outsideLauncher

\* launch_click_game, launch_brick_game, launch_memory_game: fade_out and a
\* 450 ms single shot
launch_game(name) ==
    /\ launcher_status = "running"
    /\ launcher_visible
    /\ Len(games) + Cardinality({i \in DOMAIN pending : pending[i] # "return_to_launcher"})
          < MaxLaunches
    /\ fade_animation' = [state |-> "Running", endValue |-> 0]
    /\ hide_connected' = TRUE
    /\ pending' = Append(pending, ShowCallback(name))
    /\ UNCHANGED <<launcher_status, settings_file, startup_file, settings, active_game,
                   games, launcher_visible, reported, saves>>
    /\ UNCHANGED outsideLauncher

\* fade_animation.finished
fade_finished ==
    /\ launcher_status = "running"
    /\ fade_animation.state = "Running"
    /\ fade_animation' = [fade_animation EXCEPT !.state = "Stopped"]
    /\ launcher_visible' = IF hide_connected THEN FALSE ELSE launcher_visible
    /\ UNCHANGED <<launcher_status, settings_file, startup_file, settings, active_game,
                   games, hide_connected, pending, reported, saves>>
    /\ UNCHANGED outsideLauncher

\* _show_click_game, _show_brick_game, _show_memory_game
show_game(i, name) ==
    /\ launcher_status = "running"
    /\ i \in DOMAIN pending
    /\ pending[i] = ShowCallback(name)
    /\ pending' = Remove(pending, i)
    /\ games' = Append(games, [name |-> name, open |-> TRUE, ended |-> FALSE])
    /\ active_game' = Len(games) + 1
    /\ UNCHANGED <<launcher_status, settings_file, startup_file, settings,
                   launcher_visible, fade_animation, hide_connected, reported, saves>>
    /\ UNCHANGED outsideLauncher

\* the test of update_high_score and of on_memory_game_ended
ImprovesOrEqual(name, payload, best) ==
    IF name = "memory_game" THEN payload <= best ELSE payload >= best
ImprovesHigher(name, payload, best) == payload > best
Improves(name, payload, best) ==
    IF name = "memory_game" THEN payload < best ELSE payload > best

\* a game window emits game_ended(payload): on_click_game_ended,
\* on_brick_game_ended, on_memory_game_ended.  The window need not be open:
\* closing a game stops none of its timers
game_ended(i, payload) ==
    /\ launcher_status = "running"
    /\ i \in DOMAIN games
    /\ ~games[i].ended
    /\ LET name == games[i].name
           best == Get(settings["high_scores"], name, DefaultOf(name))
           dict == [settings EXCEPT !["high_scores"] = Put(@, name, payload)]
       IN  IF Improves(name, payload, best)
           THEN /\ settings' = dict
                /\ settings_file' = save_settings(settings_file, dict)
                /\ saves' = saves + 1
           ELSE UNCHANGED <<settings, settings_file, saves>>
    /\ games' = [games EXCEPT ![i].ended = TRUE]
    /\ reported' = Append(reported, <<games[i].name, payload>>)
    /\ pending' = Append(pending, "return_to_launcher")
    /\ UNCHANGED <<launcher_status, startup_file, active_game, launcher_visible,
                   fade_animation, hide_connected>>
    /\ UNCHANGED outsideLauncher

\* return_to_launcher, 2000 ms after a game_ended: close the active game, fade_in
return_to_launcher(i) ==
    /\ launcher_status = "running"
    /\ i \in DOMAIN pending
    /\ pending[i] = "return_to_launcher"
    /\ pending' = Remove(pending, i)
    /\ games' = IF active_game # 0 THEN [games EXCEPT ![active_game].open = FALSE] ELSE games
    /\ active_game' = 0
    /\ launcher_visible' = TRUE
    /\ fade_animation' = [state |-> "Running", endValue |-> 1]
    /\ UNCHANGED <<launcher_status, settings_file, startup_file, settings,
                   hide_connected, reported, saves>>
    /\ UNCHANGED outsideLauncher

\* close_button.clicked of a game window: QWidget.close(), the launcher is
\* not told
game_closed(i) ==
    /\ launcher_status = "running"
    /\ i \in DOMAIN games
    /\ games[i].open
    /\ games' = [games EXCEPT ![i].open = FALSE]
    /\ UNCHANGED <<launcher_status, settings_file, startup_file, settings, active_game,
                   launcher_visible, fade_animation, hide_connected, pending, reported,
                   saves>>
    /\ UNCHANGED outsideLauncher

\* close_launcher: exit_button.clicked and Key_Escape
close_launcher ==
    /\ launcher_status = "running"
    /\ launcher_visible
    /\ games' = IF active_game # 0 THEN [games EXCEPT ![active_game].open = FALSE] ELSE games
    /\ launcher_status' = "closed"
    /\ launcher_visible' = FALSE
    /\ UNCHANGED <<settings_file, startup_file, settings, active_game, fade_animation,
                   hide_connected, pending, reported, saves>>
    /\ UNCHANGED outsideLauncher

InitLauncher ==
    /\ setup_game_variables
    /\ MemoryMatchGame
    /\ ClickSpeedGame
    /\ \E file \in SettingsFiles : GameLauncher(file)

NextLauncher ==
    \/ launcher_init
    \/ \E name \in GameNames : launch_game(name)
    \/ fade_finished
    \/ \E i \in 1..MaxLaunches, name \in GameNames : show_game(i, name)
    \/ \E i \in 1..MaxLaunches, payload \in Scores : game_ended(i, payload)
    \/ \E i \in 1..MaxLaunches : return_to_launcher(i)
    \/ \E i \in 1..MaxLaunches : game_closed(i)
    \/ close_launcher

SpecLauncher == InitLauncher /\ [][NextLauncher]_vars

\* the Qt event loop runs every animation to its end and fires every single
\* shot that is due
FairLauncher ==
    /\ SpecLauncher
    /\ WF_vars(fade_finished)
    /\ WF_vars(\E i \in 1..MaxLaunches, name \in GameNames : show_game(i, name))
    /\ WF_vars(\E i \in 1..MaxLaunches : return_to_launcher(i))

----------------------------------------------------------------------------
(* MemoryMatchGame: methods and callbacks.  The single shots fire in any    *)
(* order, after the flip animations that run; timer_seconds and the labels *)
(* are display only and left out.                                          *)

\* total_pairs: one pair per icon
TotalPairs == Len(card_icons)

NewCard(pair_id) ==
    [pair_id |-> pair_id, is_flipped |-> FALSE, is_matched |-> FALSE, is_animating |-> FALSE]

\* random.shuffle(card_pairs): two of the orders, equal cards apart and
\* equal cards side by side
Layouts ==
    {[i \in 1..(2 * TotalPairs) |-> NewCard((i - 1) % TotalPairs)],
     [i \in 1..(2 * TotalPairs) |-> NewCard((i - 1) \div 2)]}

\* Card.flip_to_show: the card afterwards (the return value is whether it changed)
flip_to_show(card) ==
    IF card.is_animating \/ card.is_matched THEN card
    ELSE IF ~card.is_flipped
         THEN [card EXCEPT !.is_animating = TRUE, !.is_flipped = TRUE]
         ELSE card

\* Card.flip_to_hide
flip_to_hide(card) ==
    IF card.is_animating \/ card.is_matched THEN card
    ELSE IF card.is_flipped
         THEN [card EXCEPT !.is_animating = TRUE, !.is_flipped = FALSE]
         ELSE card

\* Card.set_matched
set_matched(card) == [card EXCEPT !.is_matched = TRUE, !.is_flipped = TRUE]

FlipsDone == \A c \in DOMAIN cards : ~cards[c].is_animating

\* the 150 ms flip animations of a session are over when one of its single
\* shots of 500 ms or more fires; a single shot left over from before a
\* restart_game fires at any time
Due(i) == memory_pending[i].session < restarts \/ FlipsDone

\* the 100 ms single shot of __init__
setup_cards(i) ==
    /\ ~memory.crashed
    /\ i \in DOMAIN memory_pending
    /\ memory_pending[i].callback = "setup_cards"
    /\ memory_pending' = Remove(memory_pending, i)
    /\ cards' \in Layouts
    /\ UNCHANGED <<memory, memory_emitted, completed, restarts>>
    /\ UNCHANGED outsideMemory

\* card.clicked
on_card_clicked(c) ==
    /\ memory.visible
    /\ ~memory.crashed
    /\ memory.moves < MaxMoves
    /\ c \in DOMAIN cards
    /\ IF \/ ~memory.can_flip \/ memory.is_checking
          \/ cards[c].is_flipped \/ cards[c].is_matched
       THEN UNCHANGED <<memory, cards, memory_pending>>
       ELSE IF flip_to_show(cards[c]) = cards[c]
       THEN /\ memory' = [memory EXCEPT !.game_started = TRUE]
            /\ UNCHANGED <<cards, memory_pending>>
       ELSE /\ cards' = [cards EXCEPT ![c] = flip_to_show(cards[c])]
            /\ IF memory.first_card = 0
               THEN /\ memory' = [memory EXCEPT !.game_started = TRUE, !.first_card = c]
                    /\ UNCHANGED memory_pending
               ELSE IF memory.second_card = 0
               THEN /\ memory' = [memory EXCEPT !.game_started = TRUE,
                                                !.second_card = c,
                                                !.can_flip = FALSE,
                                                !.is_checking = TRUE,
                                                !.moves = memory.moves + 1]
                    /\ memory_pending' = Append(memory_pending, singleShot("check_match", restarts))
               ELSE /\ memory' = [memory EXCEPT !.game_started = TRUE]
                    /\ UNCHANGED memory_pending
    /\ UNCHANGED <<memory_emitted, completed, restarts>>
    /\ UNCHANGED outsideMemory

\* Card.on_animation_finished
on_animation_finished(c) ==
    /\ ~memory.crashed
    /\ c \in DOMAIN cards
    /\ cards[c].is_animating
    /\ cards' = [cards EXCEPT ![c].is_animating = FALSE]
    /\ UNCHANGED <<memory, memory_pending, memory_emitted, completed, restarts>>
    /\ UNCHANGED outsideMemory

\* check_match, 600 ms after the second card of a pair; None.pair_id raises
\* in the slot, which ends the program
check_match(i) ==
    /\ ~memory.crashed
    /\ i \in DOMAIN memory_pending
    /\ Due(i)
    /\ memory_pending[i].callback = "check_match"
    /\ IF memory.first_card = 0 \/ memory.second_card = 0
       THEN /\ memory' = [memory EXCEPT !.crashed = TRUE]
            /\ memory_pending' = Remove(memory_pending, i)
            /\ UNCHANGED <<cards, completed>>
       ELSE IF cards[memory.first_card].pair_id = cards[memory.second_card].pair_id
       THEN /\ cards' = [cards EXCEPT ![memory.first_card] = set_matched(@),
                                      ![memory.second_card] = set_matched(@)]
            /\ memory' = [memory EXCEPT !.matched_pairs = memory.matched_pairs + 1,
                                        !.first_card = 0,
                                        !.second_card = 0,
                                        !.can_flip = TRUE,
                                        !.is_checking = FALSE]
            /\ IF memory.matched_pairs + 1 = TotalPairs
               THEN /\ memory_pending' = Append(Remove(memory_pending, i), singleShot("game_complete", restarts))
                    /\ completed' = Append(completed, memory.moves)
               ELSE /\ memory_pending' = Remove(memory_pending, i)
                    /\ UNCHANGED completed
       ELSE /\ memory_pending' = Append(Remove(memory_pending, i), singleShot("flip_cards_back", restarts))
            /\ UNCHANGED <<memory, cards, completed>>
    /\ UNCHANGED <<memory_emitted, restarts>>
    /\ UNCHANGED outsideMemory

\* flip_cards_back, 1000 ms after a mismatch
flip_cards_back(i) ==
    /\ ~memory.crashed
    /\ i \in DOMAIN memory_pending
    /\ Due(i)
    /\ memory_pending[i].callback = "flip_cards_back"
    /\ memory_pending' = Remove(memory_pending, i)
    /\ cards' = [c \in DOMAIN cards |->
                    IF c \in {memory.first_card, memory.second_card} /\ ~cards[c].is_matched
                    THEN flip_to_hide(cards[c]) ELSE cards[c]]
    /\ memory' = [memory EXCEPT !.first_card = 0, !.second_card = 0,
                                !.can_flip = TRUE, !.is_checking = FALSE]
    /\ UNCHANGED <<memory_emitted, completed, restarts>>
    /\ UNCHANGED outsideMemory

\* game_complete, 500 ms after the last match: the emission and the close
\* are two 2000 ms single shots
game_complete(i) ==
    /\ ~memory.crashed
    /\ i \in DOMAIN memory_pending
    /\ Due(i)
    /\ memory_pending[i].callback = "game_complete"
    /\ IF memory.game_completed
       THEN /\ memory_pending' = Remove(memory_pending, i)
            /\ UNCHANGED memory
       ELSE /\ memory' = [memory EXCEPT !.game_completed = TRUE]
            /\ memory_pending' = Append(Append(Remove(memory_pending, i), singleShot("emit", restarts)),
                                     singleShot("close", restarts))
    /\ UNCHANGED <<cards, memory_emitted, completed, restarts>>
    /\ UNCHANGED outsideMemory

\* lambda: self.game_ended.emit(self.moves)
emit_game_ended(i) ==
    /\ ~memory.crashed
    /\ i \in DOMAIN memory_pending
    /\ Due(i)
    /\ memory_pending[i].callback = "emit"
    /\ memory_pending' = Remove(memory_pending, i)
    /\ memory_emitted' = Append(memory_emitted, memory.moves)
    /\ UNCHANGED <<memory, cards, completed, restarts>>
    /\ UNCHANGED outsideMemory

\* the single shot of self.close
memory_close(i) ==
    /\ ~memory.crashed
    /\ i \in DOMAIN memory_pending
    /\ Due(i)
    /\ memory_pending[i].callback = "close"
    /\ memory_pending' = Remove(memory_pending, i)
    /\ memory' = [memory EXCEPT !.visible = FALSE]
    /\ UNCHANGED <<cards, memory_emitted, completed, restarts>>
    /\ UNCHANGED outsideMemory

\* restart_button.clicked: no pending single shot is cancelled
restart_game ==
    /\ memory.visible
    /\ ~memory.crashed
    /\ restarts < MaxRestarts
    /\ restarts' = restarts + 1
    /\ memory' = NewSession
    /\ cards' \in Layouts
    /\ UNCHANGED <<memory_pending, memory_emitted, completed>>
    /\ UNCHANGED outsideMemory

InitMemory ==
    setup_game_variables /\ GameLauncher(AbsentFile) /\ MemoryMatchGame /\ ClickSpeedGame

PendingSlots == 1..(MaxMoves + MaxRestarts + 3)

NextMemory ==
    \/ \E i \in PendingSlots : setup_cards(i)
    \/ \E c \in 1..(2 * TotalPairs) : on_card_clicked(c)
    \/ \E c \in 1..(2 * TotalPairs) : on_animation_finished(c)
    \/ \E i \in PendingSlots : check_match(i)
    \/ \E i \in PendingSlots : flip_cards_back(i)
    \/ \E i \in PendingSlots : game_complete(i)
    \/ \E i \in PendingSlots : emit_game_ended(i)
    \/ \E i \in PendingSlots : memory_close(i)
    \/ restart_game

SpecMemory == InitMemory /\ [][NextMemory]_vars

----------------------------------------------------------------------------
(* ClickSpeedGame: methods and callbacks.  The three timers fire in any     *)
(* order while they are active; the mouse trail is display only and left   *)
(* out.                                                                     *)

\* Circle.contains_point: sqrt(dx*dx + dy*dy) <= radius
contains_point(circle, point) ==
    LET dx == point[1] - circle.x
        dy == point[2] - circle.y
    IN  dx * dx + dy * dy <= circle.radius * circle.radius

\* the radius spawn_circle computes from the score
Radius(c) == Max(initial_radius - c.score * radius_decrease, min_radius)

\* random.randint(margin, width - margin) and random.randint(margin + 60,
\* height - margin): the ends of the two ranges
SpawnPositions(c) ==
    LET margin == Radius(c) + 20
    IN  {margin, ScreenWidth - margin} \X {margin + 60, ScreenHeight - margin}

\* animate_fade_in
animate_fade_in(c) ==
    [c EXCEPT !.circle_opacity = 0, !.fade_direction = 1, !.animation_timer = TRUE]

\* animate_fade_out
animate_fade_out(c) == [c EXCEPT !.fade_direction = -1, !.animation_timer = TRUE]

\* spawn_circle, with the position that random.randint returned
spawn_circle(c, pos) ==
    animate_fade_in([c EXCEPT !.current_circle =
                                  [x |-> pos[1], y |-> pos[2], radius |-> Radius(c)],
                              !.circle_opacity = Opaque,
                              !.game_timer = TRUE,
                              !.remaining_time = time_limit,
                              !.display_timer = TRUE])

\* start_button.clicked: start_game
click_start_game ==
    /\ click.start_button
    /\ LET c == [click EXCEPT !.start_button = FALSE, !.game_active = TRUE, !.score = 0]
       IN  \E pos \in SpawnPositions(c) : click' = spawn_circle(c, pos)
    /\ circles' = circles + 1
    /\ UNCHANGED click_emitted
    /\ UNCHANGED outsideClick

\* display_timer.timeout: update_timer_display
update_timer_display ==
    /\ click.display_timer
    /\ click' = IF click.remaining_time - DisplayPeriod <= 0
                THEN [click EXCEPT !.remaining_time = 0, !.display_timer = FALSE]
                ELSE [click EXCEPT !.remaining_time = @ - DisplayPeriod]
    /\ UNCHANGED <<click_emitted, circles>>
    /\ UNCHANGED outsideClick

\* animation_timer.timeout: update_animation
update_animation ==
    /\ click.animation_timer
    /\ LET c == [click EXCEPT !.circle_opacity = @ + click.fade_direction]
       IN  IF c.fade_direction > 0 /\ c.circle_opacity >= Opaque
           THEN /\ click' = [c EXCEPT !.circle_opacity = Opaque, !.animation_timer = FALSE]
                /\ UNCHANGED circles
           ELSE IF c.fade_direction < 0 /\ c.circle_opacity <= 0
           THEN LET d == [c EXCEPT !.circle_opacity = 0, !.animation_timer = FALSE]
                IN  IF d.game_active
                    THEN /\ \E pos \in SpawnPositions(d) : click' = spawn_circle(d, pos)
                         /\ circles' = circles + 1
                    ELSE /\ click' = d
                         /\ UNCHANGED circles
           ELSE /\ click' = c
                /\ UNCHANGED circles
    /\ UNCHANGED click_emitted
    /\ UNCHANGED outsideClick

\* game_over: the fields afterwards
GameOverKeepsCountdown(c) ==
    [c EXCEPT !.game_active = FALSE, !.game_timer = FALSE, !.animation_timer = FALSE,
              !.current_circle = None]
GameOver(c) ==
    [c EXCEPT !.game_active = FALSE, !.game_timer = FALSE, !.animation_timer = FALSE,
              !.display_timer = FALSE, !.current_circle = None]

\* game_timer.timeout: game_over
game_over ==
    /\ click.game_timer
    /\ click' = GameOver(click)
    /\ click_emitted' = Append(click_emitted, click.score)
    /\ UNCHANGED circles
    /\ UNCHANGED outsideClick

\* ClickSpeedGame.mousePressEvent; outside a session a press only starts a
\* window drag
click_mousePressEvent(button, point) ==
    /\ click.score < MaxClicks
    /\ IF /\ button = "LeftButton"
          /\ click.game_active
          /\ click.current_circle # None
          /\ contains_point(click.current_circle, point)
       THEN click' = animate_fade_out([click EXCEPT !.score = @ + 1,
                                                   !.game_timer = FALSE,
                                                   !.display_timer = FALSE])
       ELSE UNCHANGED click
    /\ UNCHANGED <<click_emitted, circles>>
    /\ UNCHANGED outsideClick

InitClick == Init

NextClick ==
    \/ click_start_game
    \/ update_timer_display
    \/ update_animation
    \/ game_over
    \/ \E button \in Buttons, point \in ClickPoints : click_mousePressEvent(button, point)

SpecClick == InitClick /\ [][NextClick]_vars

----------------------------------------------------------------------------
(* Claims about the brick breaker session *)

\* the ball is free and where the movement step of a tick put it (an attached
\* or just reset ball sits at the attach height, which no tick has resolved)
BallResolved ==
    /\ game_started
    /\ ~ball_attached
    /\ ball.y # (paddle.y - ball.radius - AttachMargin) * Scale

Overlaps(i) == Intersects(BallRect(ball), BrickRect(bricks[i]))

\* C1: in every tick at most one brick has its hit count changed, and the
\* score rises by at most 10, also when the ball overlaps several undestroyed
\* bricks at once.
C1_OneBrickPerTick ==
    [][ /\ Cardinality({i \in DOMAIN bricks : bricks'[i].hits # bricks[i].hits}) <= 1
        /\ score' <= score + DestroyPoints ]_vars

\* a tick has left the ball over two bricks: an earlier one that has been hit
\* and a later one that is untouched
C1_Witness ==
    /\ BallResolved
    /\ \E i, j \in DOMAIN bricks :
          /\ i < j
          /\ Overlaps(i) /\ bricks[i].hits < bricks[i].max_hits
          /\ Overlaps(j) /\ bricks[j].hits = bricks[j].max_hits

\* C2: a brick's hits never increase, a brick is destroyed exactly when its
\* hits are 0, a destroyed brick stays as it is, and a tick that hits no brick
\* changes neither the score nor the velocity the walls and the paddle gave.
C2_DestroyedIsTerminal ==
    /\ [](\A i \in DOMAIN bricks :
             /\ bricks[i].hits >= 0
             /\ bricks[i].destroyed <=> bricks[i].hits = 0)
    /\ [][ /\ DOMAIN bricks' = DOMAIN bricks
           /\ \A i \in DOMAIN bricks :
                 /\ bricks'[i].hits <= bricks[i].hits
                 /\ bricks[i].destroyed => bricks'[i] = bricks[i]
           /\ bricks' = bricks => score' = score
           /\ (bricks' = bricks /\ game_active /\ ~ball_attached /\ ~ball_attached' /\ ball' # ball)
                 => LET s == PaddleStep(WallStep(MoveStep(KeyStep(Self, keys_pressed))))
                    IN  ball' = s.ball ]_vars

\* a tick has left the ball over two destroyed bricks and over no other brick:
\* the tick hit at most one of the two, the other was destroyed before it
C2_Witness ==
    /\ BallResolved
    /\ game_active
    /\ \E i, j \in DOMAIN bricks :
          i # j /\ Overlaps(i) /\ Overlaps(j) /\ bricks[i].destroyed /\ bricks[j].destroyed
    /\ \A i \in DOMAIN bricks : Overlaps(i) => bricks[i].destroyed

\* C3: the score never decreases.
C3_ScoreMonotone == [][score' >= score]_vars

\* a session that has ended with points scored
C3_Witness == game_started /\ ~game_active /\ score > 0

\* the step is a tick of a running session with the ball free
FreeTick == game_active /\ ~ball_attached /\ ball' # ball

\* the free ball's top edge is below the field bottom after the movement step
FallsOut == move(ball).y - ball.radius * Scale > ScreenHeight * Scale

NoBrickLeft(bs) == \A i \in DOMAIN bs : bs[i].destroyed

\* C4: a bottom exit with lives = 1 ends the session once: with lives at 0
\* the session is inactive, game_ended has been emitted exactly once (also
\* when the last brick went in the same tick), and score and lives never
\* change again.
C4_LossEndsOnce ==
    /\ [](lives <= 0 => (~game_active /\ ~timer_active /\ Len(emitted) = 1))
    /\ [][lives <= 0 => (score' = score /\ lives' = lives)]_vars

\* C5: the tick that destroys the last undestroyed brick ends the session:
\* game_active is False, the timer is stopped and game_ended is emitted when
\* that tick returns.
C5_WinSameTick ==
    [][ (~NoBrickLeft(bricks) /\ NoBrickLeft(bricks'))
            => (~game_active' /\ ~timer_active' /\ Len(emitted') > Len(emitted)) ]_vars

\* a won session: every brick destroyed, lives left, session over
C5_Witness ==
    /\ game_started /\ NoBrickLeft(bricks) /\ lives > 0
    /\ ~game_active /\ ~timer_active /\ emitted # << >>

\* C6 as claimed: a bottom exit with lives > 1 takes one life, re-attaches
\* the ball with velocity (5, -5) and leaves the session active.
C6_BottomExitKeepsSession ==
    [][ (FreeTick /\ lives > 1 /\ FallsOut)
            => /\ lives' = lives - 1
               /\ ball_attached'
               /\ ball'.speed_x = 5 * Scale /\ ball'.speed_y = -5 * Scale
               /\ game_active' ]_vars

\* C6 as amended: a bottom exit with lives > 1 takes one life and re-attaches
\* the ball with velocity (5, -5); the session stays active unless every
\* brick is destroyed when the tick ends, and then the win check of the same
\* tick ends it.
C6_BottomExitResets ==
    [][ (FreeTick /\ lives > 1 /\ FallsOut)
            => /\ lives' = lives - 1
               /\ ball_attached'
               /\ ball'.speed_x = 5 * Scale /\ ball'.speed_y = -5 * Scale
               /\ (game_active' <=> ~NoBrickLeft(bricks')) ]_vars

\* a life has been lost with lives remaining: ball back on the paddle with
\* the default velocity, session running
C6_Witness ==
    /\ game_active /\ ball_attached /\ lives >= 1 /\ lives < StartLives
    /\ ball.speed_x = 5 * Scale /\ ball.speed_y = -5 * Scale
    /\ ball.y = (paddle.y - ball.radius - AttachMargin) * Scale

\* the state the paddle step of this tick starts from
BeforePaddle == WallStep(MoveStep(KeyStep(Self, keys_pressed)))

PaddleApplies ==
    /\ Intersects(BallRect(BeforePaddle.ball), PaddleRect(paddle'))
    /\ BeforePaddle.ball.speed_y > 0

\* C7: after a tick in which the paddle collision applies, the horizontal
\* speed of the ball lies in [-5, +5].
C7_PaddleSpeedInRange ==
    [][ (FreeTick /\ PaddleApplies)
            => (ball'.speed_x >= -5 * Scale /\ ball'.speed_x <= 5 * Scale) ]_vars

\* vx, vy are what the paddle step leaves: vy negated and vx the hit position
\* mapped to (hit_fraction - 0.5) * 10 when the boxes intersect and the ball
\* moves down, both untouched otherwise
AfterPaddle(vx, vy) ==
    LET b == BeforePaddle.ball
        d == b.x - paddle'.x * Scale
    IN  IF PaddleApplies
        THEN /\ vy = -b.speed_y /\ vy < 0
             /\ (vx + 5 * Scale) * paddle'.width <= d * 10
             /\ d * 10 < (vx + 5 * Scale + 1) * paddle'.width
             /\ (2 * d = paddle'.width * Scale) => vx = 0
        ELSE vx = b.speed_x /\ vy = b.speed_y

\* C8: the paddle bounce applies exactly when the ball's box intersects the
\* paddle's box and the ball moves down; it negates vy and sets vx to
\* (hit_fraction - 0.5) * 10, which is 0 at the paddle centre; otherwise the
\* paddle changes nothing.  (A brick hit of the same tick negates one
\* component of the result.)
C8_PaddleBounce ==
    [][ (FreeTick /\ ~ball_attached')
            => IF bricks' = bricks
               THEN AfterPaddle(ball'.speed_x, ball'.speed_y)
               ELSE \/ AfterPaddle(-ball'.speed_x, ball'.speed_y)
                    \/ AfterPaddle(ball'.speed_x, -ball'.speed_y) ]_vars

\* the ball has just bounced straight up off the paddle centre
C8_Witness ==
    /\ BallResolved /\ game_active
    /\ Intersects(BallRect(ball), PaddleRect(paddle))
    /\ ball.x = (paddle.x + paddle.width \div 2) * Scale
    /\ ball.speed_x = 0 /\ ball.speed_y < 0

\* points a brick has contributed so far: 5 for a hit it survived, 10 for the
\* hit that destroyed it
Earned(brick) ==
    IF brick.hits = 0 THEN 5 * (brick.max_hits - 1) + 10
    ELSE 5 * (brick.max_hits - brick.hits)

RECURSIVE TotalEarned(_, _)
TotalEarned(bs, n) == IF n = 0 THEN 0 ELSE Earned(bs[n]) + TotalEarned(bs, n - 1)

\* C9: a hit scores 5 when the brick survives and 10 when it is destroyed, so
\* the score is the sum of what each brick has contributed, a one-hit brick
\* contributes 10 and a two-hit brick 15 in all, and every won session ends
\* with the same score.
C9_ScorePerHit ==
    /\ [](score = TotalEarned(bricks, Len(bricks)))
    /\ [](NoBrickLeft(bricks) =>
            score = 10 * Cardinality({i \in DOMAIN bricks : bricks[i].max_hits = 1})
                  + 15 * Cardinality({i \in DOMAIN bricks : bricks[i].max_hits = 2}))
    /\ [][ \A i \in DOMAIN bricks :
              bricks'[i].hits # bricks[i].hits
                 => score' - score = IF bricks'[i].destroyed THEN 10 ELSE 5 ]_vars

\* a won session in which a two-hit brick went through both of its hits
C9_Witness ==
    /\ NoBrickLeft(bricks) /\ ~game_active /\ emitted # << >>
    /\ \E i \in DOMAIN bricks : bricks[i].max_hits = 2 /\ bricks[i].hits = 0
    /\ score > 0

C11_AttachmentTransitions ==
    [][ /\ (ball_attached /\ ~ball_attached') =>
              /\ UNCHANGED <<paddle, ball, bricks, score, lives, game_active,
                             game_started, timer_active, emitted>>
              /\ \/ keys_pressed' = keys_pressed /\ inputs' = inputs
                 \/ "Key_Space" \in keys_pressed' /\ inputs' = inputs + 1
        /\ (~ball_attached /\ ball_attached') =>
              /\ game_active
              /\ FallsOut
              /\ lives' = lives - 1
              /\ lives' >= 1 ]_vars

\* the ball has been reset after a lost life and launched again
C11_Witness == game_active /\ lives < StartLives /\ ~ball_attached

\* C12: once the window of the brick game is closed its game timer is stopped
\* (game_loop never runs again), also when the session was still active.
C12_CloseStopsTimer == ~window_open => ~timer_active

\* C13: game_ended is emitted exactly once per session: never while the
\* session is active, and once it is terminal exactly one emission has been
\* made, carrying the score.
C13_EmitsOnce ==
    /\ game_active => emitted = << >>
    /\ (game_started /\ ~game_active) => emitted = <<score>>

C20_InactiveLoopIsNoOp ==
    ~game_active =>
        LET s == GameLoop(Self, keys_pressed)
        IN  /\ s.paddle = paddle
            /\ s.ball = ball
            /\ s.ball_attached = ball_attached
            /\ s.bricks = bricks
            /\ s.score = score
            /\ s.lives = lives

\* the session is over, the ball is free and a direction key is held
C20_Witness ==
    /\ game_started /\ ~game_active
    /\ ~ball_attached
    /\ keys_pressed \cap {"Key_Left", "Key_Right"} # {}

\* C22: in a tick the wall, paddle and brick steps leave the ball where the
\* movement step put it; only the reset after a lost life moves it again.
C22_CollisionsKeepPosition ==
    [][ (FreeTick /\ ~ball_attached') =>
            /\ ball'.x = move(ball).x
            /\ ball'.y = move(ball).y ]_vars

\* a tick has bounced the ball off a side wall and left it beyond the wall
C22_Witness ==
    /\ BallResolved
    /\ game_active
    /\ \/ ball.x - ball.radius * Scale < 0 /\ ball.speed_x > 0
       \/ ball.x + ball.radius * Scale > ScreenWidth * Scale /\ ball.speed_x < 0

\* the offsets between the centre of a ball and the centre of brick i
OffsetX(b, i) == Abs(b.x - CenterX(BrickRect(bricks[i])))
OffsetY(b, i) == Abs(b.y - CenterY(BrickRect(bricks[i])))

\* C23: a brick hit negates exactly one component of the velocity the
\* earlier steps of the tick left: vx when the horizontal offset between
\* the centres is strictly greater than the vertical one, otherwise vy.
C23_BrickBounceAxis ==
    [][ \A i \in DOMAIN bricks :
          (game_active /\ bricks'[i].hits # bricks[i].hits /\ ~ball_attached') =>
             LET b == PaddleStep(WallStep(MoveStep(KeyStep(Self, keys_pressed)))).ball
             IN  IF OffsetX(b, i) > OffsetY(b, i)
                 THEN ball'.speed_x = -b.speed_x /\ ball'.speed_y = b.speed_y
                 ELSE ball'.speed_y = -b.speed_y /\ ball'.speed_x = b.speed_x ]_vars

\* a tick has hit a two-hit brick from the side: the ball overlaps this brick
\* only, the brick has one hit left and the horizontal offset is the larger
C23_Witness ==
    /\ BallResolved
    /\ game_active
    /\ \E i \in DOMAIN bricks :
          /\ Overlaps(i)
          /\ ~bricks[i].destroyed /\ bricks[i].hits < bricks[i].max_hits
          /\ OffsetX(ball, i) > OffsetY(ball, i)
          /\ \A j \in DOMAIN bricks \ {i} : ~Overlaps(j)

\* C24: after a tick a free ball that overlaps the left boundary does not
\* move left and one that overlaps the right boundary does not move right,
\* so the wall step does not negate vx in two ticks in a row.
C24_NoWallOscillation ==
    (game_active /\ BallResolved) =>
        /\ ball.x - ball.radius * Scale <= 0 => ball.speed_x >= 0
        /\ ball.x + ball.radius * Scale >= ScreenWidth * Scale => ball.speed_x <= 0

\* C30: while the session is not active (before start_game, after the end)
\* no input changes the attachment of the ball, so the ball is attached when
\* the first tick after start_game begins.
C30_LaunchOnlyWhileActive ==
    /\ [][ ~game_active => ball_attached' = ball_attached ]_vars
    /\ [](~game_started => ball_attached)

----------------------------------------------------------------------------
(* Claims about the launcher *)

\* C15: after a game has emitted game_ended the launcher eventually closes
\* the active game, clears active_game and becomes visible, and a visible
\* launcher is hidden only by the fade-out of a launch or by its exit.
C15_ReturnsAndStaysVisible ==
    /\ (\E i \in DOMAIN pending : pending[i] = "return_to_launcher")
          ~> (launcher_visible /\ active_game = 0)
    /\ [][ (launcher_visible /\ ~launcher_visible') =>
              (fade_animation.endValue = 0 \/ launcher_status' = "closed") ]_vars

\* the best score the launcher holds for a game, and the one the settings
\* file had for it at startup
Best(name) == Get(settings["high_scores"], name, DefaultOf(name))
StartupBest(name) ==
    IF /\ startup_file.state = "json"
       /\ "high_scores" \in DOMAIN startup_file.content
       /\ name \in DOMAIN startup_file.content["high_scores"]
    THEN startup_file.content["high_scores"][name]
    ELSE DefaultOf(name)

\* C16: whatever the settings file is at startup (absent, unreadable,
\* malformed, or well-formed without the expected entries) the launcher
\* starts, and holds the defaults 0, 0, 999 for what is missing.
C16_StartsWithDefaults ==
    /\ launcher_status # "failed"
    /\ (launcher_status = "running" /\ reported = << >>) =>
          \A name \in GameNames : Best(name) = StartupBest(name)

SetMax(S) == CHOOSE x \in S : \A y \in S : y <= x
SetMin(S) == CHOOSE x \in S : \A y \in S : x <= y
ReportedFor(name) == {reported[i][2] : i \in {j \in DOMAIN reported : reported[j][1] = name}}

\* C17: after any sequence of session ends the best scores of the click and
\* the brick game are the maximum, and that of the memory game the minimum,
\* of the startup value and the payloads reported for the game.
C17_BestIsExtremum ==
    launcher_status \in {"running", "closed"} =>
        \A name \in GameNames :
            Best(name) = IF name = "memory_game"
                         THEN SetMin({StartupBest(name)} \cup ReportedFor(name))
                         ELSE SetMax({StartupBest(name)} \cup ReportedFor(name))

\* two memory sessions have ended, the second with more moves than the first
C17_Witness ==
    /\ Len(reported) = 2
    /\ reported[1][1] = "memory_game" /\ reported[2][1] = "memory_game"
    /\ reported[1][2] < reported[2][2]
    /\ Best("memory_game") = reported[1][2]

\* C18: every game_ended the launcher receives leads to one save of the
\* settings, whether or not the payload improves on the best score.
C18_SavesEveryEnd ==
    [][ Len(reported') = Len(reported) + 1 => saves' = saves + 1 ]_vars

\* C18, amended: a game_ended the launcher receives leads to one save of the
\* settings, with the payload as the new best, exactly when the payload
\* improves on the best score (is higher, or for the memory game lower);
\* otherwise nothing is saved and the settings stay as they are.
C18_SavesImprovement ==
    [][ Len(reported') = Len(reported) + 1 =>
          LET name == reported'[Len(reported')][1]
              payload == reported'[Len(reported')][2]
              better == IF name = "memory_game" THEN payload < Best(name)
                                                ELSE payload > Best(name)
          IN  IF better
              THEN /\ saves' = saves + 1
                   /\ Get(settings'["high_scores"], name, DefaultOf(name)) = payload
              ELSE /\ saves' = saves
                   /\ settings' = settings
                   /\ settings_file' = settings_file ]_vars

\* of two sessions that have ended one was saved; the file was not written
\* at startup
C18_Witness ==
    /\ Len(reported) = 2
    /\ startup_file.state = "json"
    /\ saves = 1

\* the game windows that are shown, and the launches whose window is still
\* to be created
LiveGames == {i \in DOMAIN games : games[i].open}
PendingShows == {i \in DOMAIN pending : pending[i] # "return_to_launcher"}

\* C25: at most one game window exists or is about to be created at any
\* time, and active_game refers to the window that is shown.
C25_OneGameWindow ==
    /\ Cardinality(LiveGames) + Cardinality(PendingShows) <= 1
    /\ \A i \in LiveGames : active_game = i

\* C29: when the active game has been closed by its close button without
\* having emitted game_ended, the launcher eventually is visible again with
\* active_game cleared.
C29_ReturnsAfterClose ==
    (/\ launcher_status = "running"
     /\ active_game # 0
     /\ ~games[active_game].open
     /\ ~games[active_game].ended)
        ~> (launcher_visible /\ active_game = 0)

----------------------------------------------------------------------------
(* Claims about the memory game *)

\* C14: every payload the memory game emits with game_ended is the final
\* move count of a session that was completed: the value of moves when its
\* last pair was matched.
C14_EmitsFinalMoves ==
    \A i \in DOMAIN memory_emitted :
        \E j \in DOMAIN completed : memory_emitted[i] = completed[j]

\* C26: every run of check_match finds first_card and second_card set; it
\* never runs on a cleared selection, whatever restart_game did meanwhile.
C26_CheckHasSelection ==
    [][ (\E i \in PendingSlots : check_match(i))
            => (memory.first_card # 0 /\ memory.second_card # 0) ]_vars

\* the cards that lie face-up without being matched
FaceUpUnmatched == {c \in DOMAIN cards : cards[c].is_flipped /\ ~cards[c].is_matched}

\* C27: at most two unmatched cards are face-up at any time.
C27_AtMostTwoFaceUp == Cardinality(FaceUpUnmatched) <= 2

----------------------------------------------------------------------------
(* Claims about the click game *)

\* C21: once game_over has run, the click game changes no more: the score
\* stays, no circle is spawned, there is no current circle, the session is
\* not active and game_timer, display_timer and animation_timer stay stopped.
C21_GameOverIsFinal ==
    /\ [](click_emitted # << >>
            => /\ ~click.game_active
               /\ click.current_circle = None
               /\ ~click.game_timer /\ ~click.display_timer /\ ~click.animation_timer)
    /\ [][ click_emitted # << >>
            => (click'.score = click.score /\ circles' = circles) ]_vars

\* game_over has run in a session with a scoring click, while a fade was
\* under way
C21_Witness ==
    /\ click_emitted # << >>
    /\ click.score > 0
    /\ click.circle_opacity < Opaque

\* C28: every circle adds at most 1 to the score: the score never exceeds
\* the number of circles spawned.
C28_OnePointPerCircle == click.score <= circles

====
